---- MODULE Spec2Model ----
(***************************************************************************)
(* Policy evaluation and ranking engine of the GPU ops platform            *)
(* (src/python/starlark_engine/engine.py): the policy data model, the      *)
(* pool/schedule registry (GPUOpsModule), the allocation predicate and the *)
(* scoring/ranking algorithm (PolicyEngine).                               *)
(*                                                                         *)
(* Encodings.                                                              *)
(*  - A Python str that is searched for substrings (GPUInfo.name and the   *)
(*    entries of GPUPool.gpu_types) is a sequence of one-character         *)
(*    strings; a str that is only compared for equality is a TLA+ string.  *)
(*  - A float that only takes whole values here (GB, degrees C, W) is an   *)
(*    integer.  A score is an integer number of tenths: for every path of  *)
(*    _score_gpu the IEEE double the code computes is the double nearest   *)
(*    to that many tenths (1.0+0.5+0.3+0.2 == 2.0, 1.0+0.5+0.3-0.3 == 1.5, *)
(*    ...), so equality and order of scores are those of the tenths.       *)
(*  - Optional[T] is a sequence: <<>> for None, <<v>> for a value v.       *)
(*  - A dict with insertion order (Dict[str, GPUPool]) is the sequence of  *)
(*    its values in insertion order, the key being the value's name.       *)
(*  - A keyword/requirements dict is a record with the set "keys" of the   *)
(*    keys present and one field per recognised key.                       *)
(***************************************************************************)
EXTENDS Integers, Sequences, FiniteSets, TLC

VARIABLES pools, schedules, call, lastRegistered, firstSeen, stale

vars == <<pools, schedules, call, lastRegistered, firstSeen, stale>>

\* ------------------------------------------------------------------------
\* Bounds of the model
\* ------------------------------------------------------------------------

\* longest candidate list handed to get_recommended_gpus
MaxGpus == 3

\* longest gpu_types list of a pool in the matching specification
MaxTypes == 2

\* ------------------------------------------------------------------------
\* Helpers for the encodings
\* ------------------------------------------------------------------------

Range(s) == {s[i] : i \in 1..Len(s)}

SeqsUpTo(S, n) == UNION {[1..k -> S] : k \in 0..n}

\* Python `t in s` for two str
IsSubstring(t, s) ==
    \E i \in 0..(Len(s) - Len(t)) : SubSeq(s, i + 1, i + Len(t)) = t

None == <<>>

Some(v) == <<v>>

\* ------------------------------------------------------------------------
\* Policy data model (dataclasses: the generated __init__ stores each
\* argument as given)
\* ------------------------------------------------------------------------

GPUInfo(id, name, memory_gb, temperature_c, online, pool, tags) ==
    [id |-> id, name |-> name, uuid |-> id, memory_gb |-> memory_gb,
     temperature_c |-> temperature_c, power_w |-> 10, online |-> online,
     registered |-> FALSE, pool |-> pool, tags |-> tags]

GPUPool(name, gpu_types, min_memory_gb, max_temp_c, power_policy, health_threshold, opt_strategies, health_checks) ==
    [name |-> name, gpu_types |-> gpu_types, min_memory_gb |-> min_memory_gb,
     max_temp_c |-> max_temp_c, power_policy |-> power_policy,
     health_threshold |-> health_threshold,
     opt_strategies |-> opt_strategies, health_checks |-> health_checks]

ScheduleRule(type, metric, strategy, values, allow) ==
    [type |-> type, metric |-> metric, strategy |-> strategy,
     values |-> values, allow |-> allow]

ScheduleRuleset(name, rules) == [name |-> name, rules |-> rules]

\* ------------------------------------------------------------------------
\* Factory functions of PolicyEngine
\* ------------------------------------------------------------------------

\* kwargs.get(key, default) on a keyword record
KwGet(kwargs, key, default) ==
    IF key \in kwargs.keys THEN kwargs[key] ELSE default

\* gpu_type is tagged: [str |-> TRUE, val |-> s] for a single str,
\* [str |-> FALSE, val |-> list] for a list of str
_create_gpu_pool(kwargs) ==
    LET given == KwGet(kwargs, "gpu_type", [str |-> FALSE, val |-> <<>>])
        gpu_type == IF given.str THEN <<given.val>> ELSE given.val
    IN GPUPool(KwGet(kwargs, "name", "default"),
               gpu_type,
               KwGet(kwargs, "min_memory_gb", 0),
               KwGet(kwargs, "max_temp_c", 100),
               "adaptive", 9, <<>>, <<>>)

_create_priority_rule(metric) ==
    ScheduleRule("priority", Some(metric), None, None, None)

_create_balance_rule(strategy) ==
    ScheduleRule("balance", None, Some(strategy), None, None)

_create_distribution_rule(values) ==
    ScheduleRule("distribution", None, None, Some(values), None)

_create_preemption_rule(allow) ==
    ScheduleRule("preemption", None, None, None, Some(allow))

_create_schedule_ruleset(name, rules) == ScheduleRuleset(name, rules)

\* ------------------------------------------------------------------------
\* Registry (GPUOpsModule)
\* ------------------------------------------------------------------------

\* d[value.name] = value on an insertion-ordered dict: an existing key keeps
\* its position and takes the new value, a new key goes to the end
DictSet(d, value) ==
    IF \E i \in 1..Len(d) : d[i].name = value.name
    THEN [i \in 1..Len(d) |-> IF d[i].name = value.name THEN value ELSE d[i]]
    ELSE Append(d, value)

\* d.get(name)
DictGet(d, name) ==
    IF \E i \in 1..Len(d) : d[i].name = name
    THEN Some(d[CHOOSE i \in 1..Len(d) : d[i].name = name])
    ELSE None

DictKeys(d) == {d[i].name : i \in 1..Len(d)}

\* mutant of register_pool: setdefault, the first registration of a name wins
register_pool_first_wins(self_pools, pool) ==
    IF pool.name \in DictKeys(self_pools) THEN self_pools ELSE Append(self_pools, pool)

\* mutant of register_pool: the old entry is deleted before the new one is
\* stored, so a re-registered name moves to the end of the listing
register_pool_moves_to_end(self_pools, pool) ==
    Append(SelectSeq(self_pools, LAMBDA q : q.name # pool.name), pool)

register_pool(self_pools, pool) == DictSet(self_pools, pool)

register_schedule(self_schedules, schedule) == DictSet(self_schedules, schedule)

get_pool(self_pools, name) == DictGet(self_pools, name)

get_schedule(self_schedules, name) == DictGet(self_schedules, name)

\* list(self.pools.values()): a fresh list of the values, in dict order
get_all_pools(self_pools) == self_pools

\* ------------------------------------------------------------------------
\* Allocation evaluator (PolicyEngine)
\* ------------------------------------------------------------------------

\* mutant of _matches_pool: the assigned-pool check is missing
_matches_pool_any_pool(gpu, pool) ==
    IF /\ pool.gpu_types # <<>>
       /\ gpu.name \notin Range(pool.gpu_types)
       /\ ~(\E t \in Range(pool.gpu_types) : IsSubstring(t, gpu.name))
    THEN FALSE
    ELSE IF gpu.memory_gb < pool.min_memory_gb
    THEN FALSE
    ELSE IF gpu.temperature_c > pool.max_temp_c
    THEN FALSE
    ELSE TRUE

\* mutant of _matches_pool: the type check is an exact match only, without
\* the fallback to substring containment
_matches_pool_exact_type(gpu, pool) ==
    IF /\ pool.gpu_types # <<>>
       /\ gpu.name \notin Range(pool.gpu_types)
    THEN FALSE
    ELSE IF gpu.memory_gb < pool.min_memory_gb
    THEN FALSE
    ELSE IF gpu.temperature_c > pool.max_temp_c
    THEN FALSE
    ELSE IF gpu.pool # "" /\ gpu.pool # pool.name
    THEN FALSE
    ELSE TRUE

\* mutant of _matches_pool: the memory floor is compared with <=
_matches_pool_memory_le(gpu, pool) ==
    IF /\ pool.gpu_types # <<>>
       /\ gpu.name \notin Range(pool.gpu_types)
       /\ ~(\E t \in Range(pool.gpu_types) : IsSubstring(t, gpu.name))
    THEN FALSE
    ELSE IF gpu.memory_gb <= pool.min_memory_gb
    THEN FALSE
    ELSE IF gpu.temperature_c > pool.max_temp_c
    THEN FALSE
    ELSE IF gpu.pool # "" /\ gpu.pool # pool.name
    THEN FALSE
    ELSE TRUE

_matches_pool(gpu, pool) ==
    IF /\ pool.gpu_types # <<>>
       /\ gpu.name \notin Range(pool.gpu_types)
       /\ ~(\E t \in Range(pool.gpu_types) : IsSubstring(t, gpu.name))
    THEN FALSE
    ELSE IF gpu.memory_gb < pool.min_memory_gb
    THEN FALSE
    ELSE IF gpu.temperature_c > pool.max_temp_c
    THEN FALSE
    ELSE IF gpu.pool # "" /\ gpu.pool # pool.name
    THEN FALSE
    ELSE TRUE

_meets_requirements(gpu, requirements) ==
    IF "min_memory" \in requirements.keys /\ gpu.memory_gb < requirements.min_memory
    THEN FALSE
    ELSE IF "max_temp" \in requirements.keys /\ gpu.temperature_c > requirements.max_temp
    THEN FALSE
    ELSE IF "tags" \in requirements.keys /\ ~(Range(requirements.tags) \subseteq Range(gpu.tags))
    THEN FALSE
    ELSE TRUE

\* mutant of EvalLoop: `return False` inside the loop body, so only the
\* first pool is ever tested
EvalLoopFirstOnly(ps, i, gpu, requirements) ==
    IF i > Len(ps)
    THEN FALSE
    ELSE _matches_pool(gpu, ps[i]) /\ _meets_requirements(gpu, requirements)

\* the for loop of evaluate_allocation over pools[i..]: the first pool that
\* admits the device ends it with True, running off the end gives False
RECURSIVE EvalLoop(_, _, _, _)
EvalLoop(ps, i, gpu, requirements) ==
    IF i > Len(ps)
    THEN FALSE
    ELSE IF _matches_pool(gpu, ps[i]) /\ _meets_requirements(gpu, requirements)
    THEN TRUE
    ELSE EvalLoop(ps, i + 1, gpu, requirements)

evaluate_allocation(self_pools, gpu, requirements) ==
    EvalLoop(get_all_pools(self_pools), 1, gpu, requirements)

\* ------------------------------------------------------------------------
\* Recommendation ranker (PolicyEngine)
\* ------------------------------------------------------------------------

\* mutant of _score_gpu: the cool bonus is given up to and including 60
_score_gpu_cool_le(self_pools, gpu) ==
    LET s0 == 10
        s1 == IF gpu.online THEN s0 + 5 ELSE s0
        s2 == IF gpu.memory_gb >= 16 THEN s1 + 3 ELSE s1
    IN IF gpu.temperature_c <= 60 THEN s2 + 2
       ELSE IF gpu.temperature_c > 80 THEN s2 - 3
       ELSE s2

\* in tenths; self_pools is the registry the method could read through self
_score_gpu(self_pools, gpu) ==
    LET s0 == 10
        s1 == IF gpu.online THEN s0 + 5 ELSE s0
        s2 == IF gpu.memory_gb >= 16 THEN s1 + 3 ELSE s1
    IN IF gpu.temperature_c < 60 THEN s2 + 2
       ELSE IF gpu.temperature_c > 80 THEN s2 - 3
       ELSE s2

\* the loop building `recommended`: one (gpu, score) entry per admitted
\* device, in input order; idx is the position of the device object in the
\* input list (the identity of the object, which the values alone lose
\* when two snapshots are equal)
RECURSIVE RecommendLoop(_, _, _, _)
RecommendLoop(self_pools, gpus, i, requirements) ==
    IF i > Len(gpus)
    THEN <<>>
    ELSE LET rest == RecommendLoop(self_pools, gpus, i + 1, requirements)
         IN IF evaluate_allocation(self_pools, gpus[i], requirements)
            THEN <<[gpu |-> gpus[i], score |-> _score_gpu(self_pools, gpus[i]), idx |-> i]>> \o rest
            ELSE rest

\* mutant of InsertDesc: an ascending sort that is then reversed, which puts
\* entries with equal keys in reverse input order
InsertDescTiesReversed(sorted, e) ==
    LET k == Cardinality({j \in 1..Len(sorted) : sorted[j].score > e.score})
    IN SubSeq(sorted, 1, k) \o <<e>> \o SubSeq(sorted, k + 1, Len(sorted))

\* list.sort(key=score, reverse=True): a stable sort, and reverse=True keeps
\* the original order of entries with equal keys.  Inserting each entry, in
\* list order, behind every entry whose key is not smaller gives that order.
InsertDesc(sorted, e) ==
    LET k == Cardinality({j \in 1..Len(sorted) : sorted[j].score >= e.score})
    IN SubSeq(sorted, 1, k) \o <<e>> \o SubSeq(sorted, k + 1, Len(sorted))

RECURSIVE SortDescFrom(_, _, _)
SortDescFrom(entries, i, sorted) ==
    IF i > Len(entries)
    THEN sorted
    ELSE SortDescFrom(entries, i + 1, InsertDesc(sorted, entries[i]))

SortByScoreDesc(entries) == SortDescFrom(entries, 1, <<>>)

\* the sorted `recommended` list of get_recommended_gpus
RecommendedSorted(self_pools, gpus, requirements) ==
    SortByScoreDesc(RecommendLoop(self_pools, gpus, 1, requirements))

\* mutant of GpusAfterRecommend: the ranking is done by sorting the caller's
\* list in place (gpus.sort(key=self._score_gpu, reverse=True))
GpusSortedInPlace(self_pools, gpus, requirements) ==
    LET keyed == [i \in 1..Len(gpus) |-> [gpu |-> gpus[i], score |-> _score_gpu(self_pools, gpus[i]), idx |-> i]]
        sorted == SortByScoreDesc(keyed)
    IN [i \in 1..Len(sorted) |-> sorted[i].gpu]

\* the caller's list object after the call: get_recommended_gpus appends to
\* and sorts its own list `recommended`, never `gpus`
GpusAfterRecommend(self_pools, gpus, requirements) == gpus

\* get_recommended_gpus: its return value out ([gpu for gpu, _ in
\* recommended]), its local list recommended, and the caller's list after
\* the call
get_recommended_gpus(self_pools, gpus, requirements) ==
    LET recommended == RecommendedSorted(self_pools, gpus, requirements)
    IN [out |-> [i \in 1..Len(recommended) |-> recommended[i].gpu],
        recommended |-> recommended,
        gpus_after |-> GpusAfterRecommend(self_pools, gpus, requirements)]

\* ------------------------------------------------------------------------
\* Inputs of the operations
\* ------------------------------------------------------------------------

NameRTX == <<"R", "T", "X">>

NameRtx == <<"r", "t", "x">>

NameA1 == <<"A", "1">>

NoKwargs ==
    [keys |-> {}, name |-> "", gpu_type |-> [str |-> FALSE, val |-> <<>>], min_memory_gb |-> 0, max_temp_c |-> 0]

\* gpu_pool(...) calls of a policy: the high-mem pool, the same name again
\* with a single type given as a str, a pool with a list of types, and the
\* second name again with a negative memory floor
KwHighMem ==
    [NoKwargs EXCEPT !.keys = {"name", "min_memory_gb", "max_temp_c"}, !.name = "high-mem", !.min_memory_gb = 16, !.max_temp_c = 80]

KwHighMemRT ==
    [NoKwargs EXCEPT !.keys = {"name", "gpu_type"}, !.name = "high-mem", !.gpu_type = [str |-> TRUE, val |-> <<"R", "T">>]]

KwEdgeTypes ==
    [NoKwargs EXCEPT !.keys = {"name", "gpu_type"}, !.name = "edge", !.gpu_type = [str |-> FALSE, val |-> <<<<"t">>, NameA1>>]]

KwEdgeNegative ==
    [NoKwargs EXCEPT !.keys = {"name", "min_memory_gb"}, !.name = "edge", !.min_memory_gb = -1]

PoolKwargs == {KwHighMem, KwHighMemRT, KwEdgeTypes, KwEdgeNegative}

PoolNames == {_create_gpu_pool(kw).name : kw \in PoolKwargs}

LookupNames == PoolNames \cup {"missing"}

Gpu1 == GPUInfo(1, NameRTX, 24, 35, TRUE, "", <<"fast">>)

Gpu2 == GPUInfo(2, NameRTX, 24, 35, TRUE, "", <<>>)

Gpu3 == GPUInfo(3, NameRtx, 8, 35, FALSE, "", <<"fast">>)

Gpu4 == GPUInfo(4, NameA1, 20, 85, TRUE, "", <<"fast">>)

Gpu5 == GPUInfo(5, NameRTX, 24, 35, TRUE, "edge", <<>>)

Gpu6 == GPUInfo(6, NameA1, -1, 35, TRUE, "", <<>>)

\* devices handed to evaluate_allocation
Gpus == {Gpu1, Gpu2, Gpu3, Gpu4, Gpu5, Gpu6}

\* devices of the candidate lists handed to get_recommended_gpus
RankGpus == {Gpu1, Gpu2, Gpu4}

NoRequirements == [keys |-> {}, min_memory |-> 0, max_temp |-> 0, tags |-> <<>>]

\* {}, {"min_memory": 16}, {"max_temp": 60, "tags": ["fast"], "priority": ...}
Requirements ==
    { NoRequirements,
      [NoRequirements EXCEPT !.keys = {"min_memory"}, !.min_memory = 16],
      [NoRequirements EXCEPT !.keys = {"max_temp", "tags", "priority"}, !.max_temp = 60, !.tags = <<"fast">>] }

\* rulesets a policy registers: one built by the four rule factories, one
\* whose rule is built by the ScheduleRule constructor with another kind
Rulesets ==
    { _create_schedule_ruleset("default", <<_create_priority_rule("memory"), _create_balance_rule("round_robin"), _create_distribution_rule(<<"zone-a">>), _create_preemption_rule(TRUE)>>),
      ScheduleRuleset("default", <<ScheduleRule("custom", None, None, None, None)>>) }

NoGpu == GPUInfo(0, <<>>, 0, 0, FALSE, "", <<>>)

NoPool == GPUPool("", <<>>, 0, 0, "", 0, <<>>, <<>>)

\* the record of the last call: its arguments as passed, its return value,
\* and the caller's argument objects as they are after the call
NoCall ==
    [op |-> "none", done |-> TRUE, gpu |-> NoGpu, gpus |-> <<>>, pool |-> NoPool,
     schedule |-> ScheduleRuleset("", <<>>), name |-> "", requirements |-> NoRequirements,
     extra |-> <<>>, front |-> FALSE,
     ret |-> FALSE, ret_added |-> FALSE, found |-> None, listed |-> <<>>,
     out |-> <<>>, recommended |-> <<>>, score |-> 0,
     gpus_after |-> <<>>, requirements_after |-> NoRequirements, gpu_after |-> NoGpu]

\* ------------------------------------------------------------------------
\* The engine: registry operations and evaluation calls
\* ------------------------------------------------------------------------

Init ==
    /\ pools = <<>>
    /\ schedules = <<>>
    /\ call = NoCall
    /\ lastRegistered = [n \in PoolNames |-> None]
    /\ firstSeen = <<>>
    /\ stale = [n \in PoolNames |-> None]

\* The engine is synchronous and single-threaded: the caller makes one call
\* at a time, and takes its result (Return) before it makes the next one.
Idle == call.op = "none"

\* gpu_ops.register_pool(gpu_pool(**kw)); lastRegistered, firstSeen and stale
\* are the history of the calls: the last pool registered under each name,
\* the names in the order of their first registration, and the pool the last
\* registration under a name took the place of
RegisterPool ==
    \E kw \in PoolKwargs :
        LET pool == _create_gpu_pool(kw)
        IN /\ Idle
           /\ pools' = register_pool(pools, pool)
           /\ lastRegistered' = [lastRegistered EXCEPT ![pool.name] = Some(pool)]
           /\ firstSeen' = IF lastRegistered[pool.name] = None THEN Append(firstSeen, pool.name) ELSE firstSeen
           /\ stale' = [stale EXCEPT ![pool.name] = lastRegistered[pool.name]]
           /\ call' = [NoCall EXCEPT !.op = "register_pool", !.pool = pool]
           /\ UNCHANGED schedules

RegisterSchedule ==
    \E schedule \in Rulesets :
        /\ Idle
        /\ schedules' = register_schedule(schedules, schedule)
        /\ call' = [NoCall EXCEPT !.op = "register_schedule", !.schedule = schedule]
        /\ UNCHANGED <<pools, lastRegistered, firstSeen, stale>>

GetPool ==
    \E name \in LookupNames :
        /\ Idle
        /\ call' = [NoCall EXCEPT !.op = "get_pool", !.name = name, !.found = get_pool(pools, name)]
        /\ UNCHANGED <<pools, schedules, lastRegistered, firstSeen, stale>>

GetSchedule ==
    \E name \in {"default", "missing"} :
        /\ Idle
        /\ call' = [NoCall EXCEPT !.op = "get_schedule", !.name = name, !.found = get_schedule(schedules, name)]
        /\ UNCHANGED <<pools, schedules, lastRegistered, firstSeen, stale>>

GetAllPools ==
    /\ Idle
    /\ call' = [NoCall EXCEPT !.op = "get_all_pools", !.listed = get_all_pools(pools)]
    /\ UNCHANGED <<pools, schedules, lastRegistered, firstSeen, stale>>

EvaluateAllocation ==
    \E gpu \in Gpus, requirements \in Requirements :
        /\ Idle
        /\ call' = [NoCall EXCEPT !.op = "evaluate_allocation", !.gpu = gpu, !.requirements = requirements,
                                  !.ret = evaluate_allocation(pools, gpu, requirements),
                                  !.gpu_after = gpu, !.requirements_after = requirements]
        /\ UNCHANGED <<pools, schedules, lastRegistered, firstSeen, stale>>

GetRecommendedGpus ==
    \E gpus \in SeqsUpTo(RankGpus, MaxGpus), requirements \in Requirements :
        LET r == get_recommended_gpus(pools, gpus, requirements)
        IN /\ Idle
           /\ call' = [NoCall EXCEPT !.op = "get_recommended_gpus", !.gpus = gpus, !.requirements = requirements,
                                     !.out = r.out, !.recommended = r.recommended,
                                     !.gpus_after = r.gpus_after, !.requirements_after = requirements]
           /\ UNCHANGED <<pools, schedules, lastRegistered, firstSeen, stale>>

Return ==
    /\ ~Idle
    /\ call.done
    /\ call' = NoCall
    /\ UNCHANGED <<pools, schedules, lastRegistered, firstSeen, stale>>

Next ==
    \/ RegisterPool
    \/ RegisterSchedule
    \/ GetPool
    \/ GetSchedule
    \/ GetAllPools
    \/ EvaluateAllocation
    \/ GetRecommendedGpus
    \/ Return

Spec == Init /\ [][Next]_vars

\* ------------------------------------------------------------------------
\* The pure functions on their own: one call of _matches_pool or _score_gpu
\* on inputs drawn from grids around the thresholds
\* ------------------------------------------------------------------------

\* the strings a gpu_types list is made of: a substring of "RTX", one of
\* "rtx" (lower case), the whole of "A1" and the empty string
TypeStrings == {<<"R", "T">>, <<"t">>, NameA1, <<>>}

MatchGpus ==
    {GPUInfo(1, name, memory_gb, temperature_c, TRUE, pool, <<>>) :
        name \in {NameRTX, NameRtx, NameA1}, memory_gb \in {8, 16},
        temperature_c \in {35, 85}, pool \in {"", "edge", "high-mem"}}

MatchPools ==
    {GPUPool("edge", gpu_types, min_memory_gb, max_temp_c, "adaptive", 9, <<>>, <<>>) :
        gpu_types \in SeqsUpTo(TypeStrings, MaxTypes), min_memory_gb \in {0, 16},
        max_temp_c \in {80, 100}}

\* the strings added to a gpu_types list
ExtraStrings == TypeStrings \ {<<>>}

MatchCalls ==
    {[NoCall EXCEPT !.op = "_matches_pool", !.done = FALSE, !.gpu = gpu, !.pool = pool, !.extra = extra, !.front = front] :
        gpu \in MatchGpus, pool \in MatchPools, extra \in ExtraStrings, front \in BOOLEAN}

ScoreGpus ==
    {GPUInfo(1, NameRTX, memory_gb, temperature_c, online, "", <<>>) :
        memory_gb \in {8, 15, 16, 20, 24},
        temperature_c \in {-5, 35, 59, 60, 61, 79, 80, 81, 85}, online \in BOOLEAN}

ScoreCalls ==
    {[NoCall EXCEPT !.op = "_score_gpu", !.done = FALSE, !.gpu = gpu, !.requirements = requirements] :
        gpu \in ScoreGpus, requirements \in Requirements}

\* registries left by no, one and two register_pool calls
PureRegistries ==
    { <<>>,
      register_pool(<<>>, _create_gpu_pool(KwHighMem)),
      register_pool(register_pool(<<>>, _create_gpu_pool(KwHighMem)), _create_gpu_pool(KwEdgeTypes)) }

\* pool.gpu_types with one more entry, in front or at the end
WithType(pool, extra, front) ==
    [pool EXCEPT !.gpu_types = IF front THEN <<extra>> \o @ ELSE Append(@, extra)]

InitPure ==
    /\ \/ call \in MatchCalls /\ pools = <<>>
       \/ call \in ScoreCalls /\ pools \in PureRegistries
    /\ schedules = <<>>
    /\ lastRegistered = [n \in PoolNames |-> get_pool(pools, n)]
    /\ firstSeen = [i \in 1..Len(pools) |-> pools[i].name]
    /\ stale = [n \in PoolNames |-> None]

\* _matches_pool(gpu, pool), and again for the pool with one more type
MatchesPool ==
    /\ call.op = "_matches_pool"
    /\ ~call.done
    /\ call' = [call EXCEPT !.done = TRUE,
                            !.ret = _matches_pool(call.gpu, call.pool),
                            !.ret_added = _matches_pool(call.gpu, WithType(call.pool, call.extra, call.front))]
    /\ UNCHANGED <<pools, schedules, lastRegistered, firstSeen, stale>>

ScoreGpu ==
    /\ call.op = "_score_gpu"
    /\ ~call.done
    /\ call' = [call EXCEPT !.done = TRUE, !.score = _score_gpu(pools, call.gpu)]
    /\ UNCHANGED <<pools, schedules, lastRegistered, firstSeen, stale>>

NextPure ==
    \/ MatchesPool
    \/ ScoreGpu

SpecPure == InitPure /\ [][NextPure]_vars

\* ------------------------------------------------------------------------
\* Properties of the engine
\* ------------------------------------------------------------------------

\* the orders in which the pools of a registry can be listed
Listings(ps) == {l \in [1..Len(ps) -> Range(ps)] : Range(l) = Range(ps)}

\* criterion 1 of pool admission as the specification words it
NameCriterion(gpu, pool) ==
    pool.gpu_types = <<>> \/ \E t \in Range(pool.gpu_types) : IsSubstring(t, gpu.name)

RuleKinds == {"priority", "balance", "distribution", "preemption"}

\* C1: evaluate(device, requirements) is true iff some pool now in the
\* registry satisfies matches_pool(device, pool) and meets_requirements(device,
\* requirements) holds; it is false when no pool is registered, and it is the
\* same for every order in which the pools are listed.
C1_EvaluateIffSomePoolAdmits ==
    call.op = "evaluate_allocation" =>
        /\ call.ret = (/\ \E p \in Range(pools) : _matches_pool(call.gpu, p)
                       /\ _meets_requirements(call.gpu, call.requirements))
        /\ (pools = <<>> => ~call.ret)
        /\ \A l \in Listings(pools) : evaluate_allocation(l, call.gpu, call.requirements) = call.ret

\* C1 witness: two pools are registered, the first listed does not admit the
\* device, the second does, and evaluate returned true.
C1_Witness ==
    /\ call.op = "evaluate_allocation"
    /\ Len(pools) = 2
    /\ ~_matches_pool(call.gpu, pools[1])
    /\ _matches_pool(call.gpu, pools[2])
    /\ call.ret

\* C2: get_pool(n) is the pool most recently registered under n, absent if
\* none ever was, and evaluate accepts a device only through a pool that is
\* the most recent registration of its name (criteria of a replaced pool no
\* longer apply).
C2_ReRegistrationReplaces ==
    /\ \A n \in LookupNames :
          get_pool(pools, n) = (IF n \in PoolNames THEN lastRegistered[n] ELSE None)
    /\ call.op = "get_pool" =>
          call.found = (IF call.name \in PoolNames THEN lastRegistered[call.name] ELSE None)
    /\ (call.op = "evaluate_allocation" /\ call.ret) =>
          \E n \in PoolNames :
              /\ lastRegistered[n] # None
              /\ _matches_pool(call.gpu, lastRegistered[n][1])
              /\ _meets_requirements(call.gpu, call.requirements)

\* C2 witness: a pool was replaced by a different one under its name, the
\* device meets the requirements and the replaced pool's criteria, and
\* evaluate returned false.
C2_Witness ==
    /\ call.op = "evaluate_allocation"
    /\ ~call.ret
    /\ _meets_requirements(call.gpu, call.requirements)
    /\ \E n \in PoolNames :
          /\ stale[n] # None
          /\ stale[n] # lastRegistered[n]
          /\ _matches_pool(call.gpu, stale[n][1])

\* C3: recommend returns exactly the input devices for which evaluate is
\* true, each occurrence once, ordered by non-increasing score, and devices
\* of equal score keep their relative input order.
C3_RecommendFiltersAndRanks ==
    call.op = "get_recommended_gpus" =>
        LET rec == call.recommended
            admitted == {j \in 1..Len(call.gpus) : evaluate_allocation(pools, call.gpus[j], call.requirements)}
        IN /\ Len(call.out) = Len(rec)
           /\ Len(rec) = Cardinality(admitted)
           /\ {rec[i].idx : i \in 1..Len(rec)} = admitted
           /\ \A i \in 1..Len(rec) :
                 /\ call.out[i] = call.gpus[rec[i].idx]
                 /\ rec[i].score = _score_gpu(pools, call.out[i])
           /\ \A i, j \in 1..Len(rec) :
                 i < j => \/ rec[i].score > rec[j].score
                          \/ rec[i].score = rec[j].score /\ rec[i].idx < rec[j].idx

\* C3 witness: three devices are returned, the first two are different
\* devices of equal score, and the ranking moved the first input device back.
C3_Witness ==
    /\ call.op = "get_recommended_gpus"
    /\ Len(call.recommended) = 3
    /\ call.recommended[1].score = call.recommended[2].score
    /\ call.recommended[1].gpu # call.recommended[2].gpu
    /\ call.recommended[3].idx = 1

\* C4: malformed data-model input (negative memory capacity, a rule kind
\* outside priority/balance/distribution/preemption) is rejected when the
\* value is constructed, so no such value is registered or reaches
\* evaluate/recommend.
C4_MalformedInputNeverRegistered ==
    /\ \A p \in Range(pools) : p.min_memory_gb >= 0
    /\ \A s \in Range(schedules) : \A r \in Range(s.rules) : r.type \in RuleKinds
    /\ call.op = "evaluate_allocation" => call.gpu.memory_gb >= 0

\* C5: list_pools returns one pool per registered name, in the order of the
\* names' first registration, each name holding its most recent registration.
C5_ListPoolsFirstRegistrationOrder ==
    LET expected == [i \in 1..Len(firstSeen) |-> lastRegistered[firstSeen[i]][1]]
    IN /\ get_all_pools(pools) = expected
       /\ call.op = "get_all_pools" => call.listed = expected

\* C5 witness: the name listed first has just been registered again with a
\* different pool while a second name was already listed behind it.
C5_Witness ==
    /\ call.op = "register_pool"
    /\ Len(pools) = 2
    /\ pools[1] = call.pool
    /\ stale[call.pool.name] # None
    /\ stale[call.pool.name] # Some(call.pool)

\* C8: a device with a non-empty assigned pool is accepted only if a pool of
\* exactly that name is registered and the device meets that pool's name,
\* memory and temperature criteria; pools of any other name never admit it.
C8_BoundDeviceOnlyThroughItsPool ==
    (call.op = "evaluate_allocation" /\ call.gpu.pool # "") =>
        /\ \A p \in Range(pools) : p.name # call.gpu.pool => ~_matches_pool(call.gpu, p)
        /\ call.ret =>
              \E p \in Range(pools) :
                  /\ p.name = call.gpu.pool
                  /\ NameCriterion(call.gpu, p)
                  /\ call.gpu.memory_gb >= p.min_memory_gb
                  /\ call.gpu.temperature_c <= p.max_temp_c

\* C8 witness: the device is bound to one pool, a pool of another name whose
\* name, memory and temperature criteria it meets is registered, and
\* evaluate returned false.
C8_Witness ==
    /\ call.op = "evaluate_allocation"
    /\ call.gpu.pool # ""
    /\ ~call.ret
    /\ _meets_requirements(call.gpu, call.requirements)
    /\ \E p \in Range(pools) :
          /\ p.name # call.gpu.pool
          /\ NameCriterion(call.gpu, p)
          /\ call.gpu.memory_gb >= p.min_memory_gb
          /\ call.gpu.temperature_c <= p.max_temp_c

\* C10: evaluate and recommend leave the pool map, the schedule map, the
\* devices passed in, the requirement set and the input list as they were;
\* only register_pool changes the pool map, only register_schedule changes
\* the schedule map, and no step removes a registered name.
C10_QueriesAreReadOnly ==
    [][ /\ (Idle /\ call'.op \in {"evaluate_allocation", "get_recommended_gpus"}) =>
              /\ pools' = pools
              /\ schedules' = schedules
              /\ call'.gpu_after = call'.gpu
              /\ call'.gpus_after = call'.gpus
              /\ call'.requirements_after = call'.requirements
        /\ pools' # pools => (Idle /\ call'.op = "register_pool")
        /\ schedules' # schedules => (Idle /\ call'.op = "register_schedule")
        /\ DictKeys(pools) \subseteq DictKeys(pools')
        /\ DictKeys(schedules) \subseteq DictKeys(schedules') ]_vars

\* C10 witness: recommend returned the whole input list in another order,
\* with pools and a schedule registered, and the input list is as passed.
C10_Witness ==
    /\ call.op = "get_recommended_gpus"
    /\ Len(call.gpus) >= 2
    /\ Len(call.out) = Len(call.gpus)
    /\ call.out # call.gpus
    /\ call.gpus_after = call.gpus
    /\ pools # <<>>
    /\ schedules # <<>>

NoTypeOccurs(gpu, pool) ==
    \A t \in Range(pool.gpu_types) : ~IsSubstring(t, gpu.name)

\* the criteria of pool admission other than the name criterion
OtherCriteria(gpu, pool) ==
    /\ gpu.memory_gb >= pool.min_memory_gb
    /\ gpu.temperature_c <= pool.max_temp_c
    /\ (gpu.pool = "" \/ gpu.pool = pool.name)

MatchDone == call.op = "_matches_pool" /\ call.done

\* C6 as stated: for a pool with a non-empty substring list, if no listed
\* substring occurs in the device name then matches_pool is false, and adding
\* a substring that does occur makes matches_pool true.
C6_AddingSubstringAdmits ==
    (MatchDone /\ call.pool.gpu_types # <<>> /\ NoTypeOccurs(call.gpu, call.pool)) =>
        /\ ~call.ret
        /\ IsSubstring(call.extra, call.gpu.name) => call.ret_added

\* C6 amended: for a pool with a non-empty substring list, if no listed
\* substring occurs in the device name then matches_pool is false, and after
\* adding a substring that does occur matches_pool is true exactly when the
\* device also meets the pool's memory, temperature and assigned-pool criteria.
C6_AddingSubstringPassesNameCheck ==
    (MatchDone /\ call.pool.gpu_types # <<>> /\ NoTypeOccurs(call.gpu, call.pool)) =>
        /\ ~call.ret
        /\ IsSubstring(call.extra, call.gpu.name) =>
              call.ret_added = OtherCriteria(call.gpu, call.pool)

\* C6 witness: no listed substring occurs, matches_pool was false, and with a
\* proper substring of the name added it is true.
C6_Witness ==
    /\ MatchDone
    /\ call.pool.gpu_types # <<>>
    /\ NoTypeOccurs(call.gpu, call.pool)
    /\ ~call.ret
    /\ IsSubstring(call.extra, call.gpu.name)
    /\ call.extra # call.gpu.name
    /\ call.extra # <<>>
    /\ call.ret_added

\* C7: matches_pool is false whenever the device's memory is below the pool's
\* minimum, whatever the other fields, and memory equal to the minimum passes
\* the memory check: the device matches if it meets the other criteria.
C7_MemoryFloorIsStrict ==
    MatchDone =>
        /\ call.gpu.memory_gb < call.pool.min_memory_gb => ~call.ret
        /\ call.gpu.memory_gb = call.pool.min_memory_gb =>
              call.ret = (/\ NameCriterion(call.gpu, call.pool)
                          /\ call.gpu.temperature_c <= call.pool.max_temp_c
                          /\ (call.gpu.pool = "" \/ call.gpu.pool = call.pool.name))

\* C7 witness: the device meets every criterion but the memory floor and is
\* rejected.
C7_Witness ==
    /\ MatchDone
    /\ call.gpu.memory_gb < call.pool.min_memory_gb
    /\ NameCriterion(call.gpu, call.pool)
    /\ call.gpu.temperature_c <= call.pool.max_temp_c
    /\ call.gpu.pool = call.pool.name
    /\ ~call.ret

\* C9: score is 1.0, plus 0.5 if online, plus 0.3 if memory_gb >= 16, plus 0.2
\* if temperature_c < 60 and otherwise minus 0.3 if temperature_c > 80 (in
\* tenths); the band 60..80 contributes 0, the score is the same for every
\* registry, and the online 24 GB 35 C device scores 2.0, the online 20 GB
\* 85 C device 1.5.
C9_ScoreFormula ==
    (call.op = "_score_gpu" /\ call.done) =>
        LET g == call.gpu
            base == 10 + (IF g.online THEN 5 ELSE 0) + (IF g.memory_gb >= 16 THEN 3 ELSE 0)
            cool == IF g.temperature_c < 60 THEN 2 ELSE 0
            hot == IF g.temperature_c > 80 THEN 3 ELSE 0
        IN /\ call.score = base + cool - hot
           /\ (g.temperature_c >= 60 /\ g.temperature_c <= 80) => call.score = base
           /\ \A r \in PureRegistries : _score_gpu(r, g) = call.score
           /\ (g.online /\ g.memory_gb = 24 /\ g.temperature_c = 35) => call.score = 20
           /\ (g.online /\ g.memory_gb = 20 /\ g.temperature_c = 85) => call.score = 15

\* C9 witness: the online 20 GB 85 C device was scored 1.5 with pools
\* registered and requirements passed.
C9_Witness ==
    /\ call.op = "_score_gpu"
    /\ call.done
    /\ call.gpu.online
    /\ call.gpu.memory_gb = 20
    /\ call.gpu.temperature_c = 85
    /\ call.score = 15
    /\ Len(pools) = 2
    /\ call.requirements # NoRequirements

====
